---- MODULE Spec2Model ----
(***************************************************************************)
(* OpenWRTMetrics: the collectors of the exporter (package collector).     *)
(*                                                                         *)
(* The latency source (collector/ping.go) is modelled step by step: the    *)
(* Collect goroutine, its workers and the goroutine that closes the        *)
(* results channel, with Go's channel and WaitGroup semantics.             *)
(*                                                                         *)
(* Numbers: a time.Duration is an integer number of nanoseconds; a latency *)
(* in milliseconds, float64(d.Microseconds()) / 1000.0, is kept as the     *)
(* integer number of thousandths of a millisecond (its numerator over      *)
(* 1000); a packet loss percentage is kept as the fraction num/den.        *)
(***************************************************************************)
EXTENDS Integers, Sequences, FiniteSets, Bags, TLC

\* ------------------------------------------------------------------ bounds
MaxTargets == 2
MaxConcurrency == 2
MaxCount == 2
MaxScrapes == 2
MaxLines == 2

\* ----------------------------------------------------------- value domains
IPTypeIPv4 == "IPv4"
IPTypeIPv6 == "IPv6"

Hosts == {"a.example"}

\* PingTarget{Host, IPType}
PingTargets == [Host : Hosts, IPType : {IPTypeIPv4, IPTypeIPv6}]

\* A net.IP: its byte length, whether To4() is non-nil (a 4-byte address or
\* an IPv4-mapped 16-byte one), and its String().
IPv4Addr == [len |-> 4, v4 |-> TRUE, str |-> "192.0.2.1"]
IPv6Addr == [len |-> 16, v4 |-> FALSE, str |-> "2001:db8::1"]
MappedAddr == [len |-> 16, v4 |-> TRUE, str |-> "192.0.2.7"]
NoIP == [len |-> 0, v4 |-> FALSE, str |-> "<nil>"]

To4(ip) == IF ip.v4 THEN ip ELSE NoIP
To16(ip) == IF ip.len = 4 \/ ip.len = 16 THEN ip ELSE NoIP

\* error values; NoErr is Go's nil error
NoErr == "nil"
ErrLookup == "lookup: no such host"
ErrUnknownIPType == "unknown IP type"
ErrNoAddress == "no IPv6 address found"
ErrNewPinger == "NewPinger failed"
ErrRun == "pinger.Run failed"

NilResult == [nil |-> TRUE]

Range(s) == {s[i] : i \in 1..Len(s)}
SeqToBag(s) == [x \in Range(s) |-> Cardinality({i \in 1..Len(s) : s[i] = x})]
SeqsUpTo(S, n) == UNION {[1..k -> S] : k \in 0..n}

RECURSIVE SumSeq(_)
SumSeq(s) == IF s = <<>> THEN 0 ELSE Head(s) + SumSeq(Tail(s))
MinOf(S) == CHOOSE x \in S : \A y \in S : x <= y
MaxOf(S) == CHOOSE x \in S : \A y \in S : x >= y

\* --------------------------------------------------------------- variables
VARIABLES
    config,      \* PingCollector.config: Targets, Count, Concurrency
    mainPc,      \* where the goroutine running Collect is
    workerCount, \* Collect's local workerCount
    spawned,     \* the worker-start loop's i
    nextTask,    \* how many targets the producer loop has sent
    tasksCh,     \* chan PingTarget: buf, cap, closed
    resultsCh,   \* chan pingResultWithTarget: buf, cap, closed
    wg,          \* sync.WaitGroup counter
    wpc,         \* each worker goroutine's position
    wtarget,     \* each worker's loop variable target
    wips,        \* each worker's ips, net.LookupIP's answer inside pingTarget
    wip,         \* each worker's resolvedIP inside pingTarget
    closerPc,    \* the goroutine that waits for the workers and closes resultsCh
    ch,          \* the samples Collect has put on the Prometheus channel
    panicked,    \* a goroutine has panicked (send on a closed channel)
    received,    \* history: the results the loop over resultsCh has received
    pingers,     \* history: the number of probing.NewPinger calls
    calls,       \* history: the bag of targets pingTarget was called with
    returns      \* history: the bag of pingTarget returns, each with the
                 \* network's answers: [target, lookup, pinger, result, err]

\* one call of a function of the package on inputs of its own
VARIABLES
    probe,       \* a pingTarget call: its target and answers, and what it returned
    called       \* a call of another function: its name, what it read, its result

\* the other collectors in a scrape: whether Collect has been called and has
\* returned, and what it found on the router when it ran
VARIABLES
    network,     \* NetworkCollector.Collect: /proc/net/dev and /proc/uptime
    device,      \* DeviceCollector.Collect: lease files, `ip neigh`, /proc/net/arp
    upnp         \* UPnPCollector.Collect: the miniupnpd lease files

\* the process: main and the registry it serves scrapes from
VARIABLES
    serverPc,    \* where main is: "start", "registering", "serving"
    registry,    \* the collectors registered with the prometheus registry
    scrape,      \* a scrape's Gather: "none", or "gathering" its collectors
    scrapeNo     \* the number of scrapes served

mainVars == <<mainPc, workerCount, spawned, nextTask>>
workerVars == <<wpc, wtarget, wips, wip>>
histVars == <<received, pingers, calls, returns>>
pingVars == <<config, mainVars, tasksCh, resultsCh, wg, workerVars, closerPc, ch,
              panicked, histVars>>

\* what the goroutines of PingCollector.Collect leave alone
exporterVars == <<serverPc, registry, scrape, scrapeNo>>
fnVars == <<probe, called>>
nonPingVars == <<fnVars, network, device, upnp, exporterVars>>

\* what the other collectors' Collect leaves alone of the ping collector
pingLocalVars == <<config, mainVars, tasksCh, resultsCh, wg, workerVars, closerPc,
                   panicked, histVars>>

vars == <<pingVars, nonPingVars>>

\* ------------------------------------------------------------- descriptors
\* NewPingCollector: the label names shared by the five ping descriptors
pingLabels == <<"target", "ip", "ip_type">>
avgLatencyMs == [name |-> "openwrt_ping_avg_latency_ms", labels |-> pingLabels]
minLatencyMs == [name |-> "openwrt_ping_min_latency_ms", labels |-> pingLabels]
maxLatencyMs == [name |-> "openwrt_ping_max_latency_ms", labels |-> pingLabels]
packetLoss == [name |-> "openwrt_ping_packet_loss_percent", labels |-> pingLabels]

\* prometheus.MustNewConstMetric(desc, valueType, value, labelValues...)
Metric(desc, value, labelValues) ==
    [desc |-> desc, value |-> value, labelValues |-> labelValues]

\* ------------------------------------------------------------- pingTarget
\* What the network answers to one pingTarget call.  A lookup answer is
\* net.LookupIP's (ips, err); a pinger answer is whether probing.NewPinger and
\* pinger.Run fail and, when they do not, the packets sent and the round-trip
\* time in nanoseconds of every reply received.
LookupAnswer(err, ips) == [err |-> err, ips |-> ips]
PingerAnswer(newErr, runErr, sent, rtts) ==
    [newPingerErr |-> newErr, runErr |-> runErr, sent |-> sent, rtts |-> rtts]

\* the first address of ips that is in the set wanted, or the nil IP
FirstIP(ips, wanted) ==
    LET idx == {i \in 1..Len(ips) : ips[i] \in wanted}
    IN  IF idx = {} THEN NoIP ELSE ips[MinOf(idx)]

\* the tests of the two loops over ips
IsV4(ip) == To4(ip) # NoIP
IsV6(ip) == To4(ip) = NoIP /\ To16(ip) # NoIP

\* pingTarget, first half: the lookup and the choice of resolvedIP.
\* Yields [ip, err]; err # NoErr is pingTarget returning (nil, err).
ResolveSkipNilCheck(target, answer) ==
    IF answer.err THEN [ip |-> NoIP, err |-> ErrLookup]
    ELSE CASE target.IPType = IPTypeIPv4 ->
                [ip |-> FirstIP(answer.ips, {ip \in Range(answer.ips) : IsV4(ip)}), err |-> NoErr]
           [] target.IPType = IPTypeIPv6 ->
                [ip |-> FirstIP(answer.ips, {ip \in Range(answer.ips) : IsV6(ip)}), err |-> NoErr]
           [] OTHER -> [ip |-> NoIP, err |-> ErrUnknownIPType]

ResolveV6AnyAddress(target, answer) ==
    IF answer.err THEN [ip |-> NoIP, err |-> ErrLookup]
    ELSE LET r == CASE target.IPType = IPTypeIPv4 ->
                        [ip |-> FirstIP(answer.ips, {ip \in Range(answer.ips) : IsV4(ip)}), err |-> NoErr]
                   [] target.IPType = IPTypeIPv6 ->
                        [ip |-> FirstIP(answer.ips, {ip \in Range(answer.ips) : To16(ip) # NoIP}), err |-> NoErr]
                   [] OTHER -> [ip |-> NoIP, err |-> ErrUnknownIPType]
         IN  IF r.err = NoErr /\ r.ip = NoIP
             THEN [ip |-> NoIP, err |-> ErrNoAddress]
             ELSE r

Resolve(target, answer) ==
    IF answer.err THEN [ip |-> NoIP, err |-> ErrLookup]
    ELSE LET r == CASE target.IPType = IPTypeIPv4 ->
                        [ip |-> FirstIP(answer.ips, {ip \in Range(answer.ips) : IsV4(ip)}), err |-> NoErr]
                   [] target.IPType = IPTypeIPv6 ->
                        [ip |-> FirstIP(answer.ips, {ip \in Range(answer.ips) : IsV6(ip)}), err |-> NoErr]
                   [] OTHER -> [ip |-> NoIP, err |-> ErrUnknownIPType]
         IN  IF r.err = NoErr /\ r.ip = NoIP
             THEN [ip |-> NoIP, err |-> ErrNoAddress]
             ELSE r

\* time.Duration.Microseconds(): nanoseconds to whole microseconds
Microseconds(d) == d \div 1000

\* float64(d.Microseconds()) / 1000.0, as a fraction
LatencyMs(d) == [num |-> Microseconds(d), den |-> 1000]

\* pinger.Statistics() of the pro-bing library
Statistics(answer) ==
    LET recv == Len(answer.rtts)
    IN  [PacketsSent |-> answer.sent,
         PacketsRecv |-> recv,
         PacketLoss |-> [num |-> (answer.sent - recv) * 100, den |-> answer.sent],
         MinRtt |-> IF recv = 0 THEN 0 ELSE MinOf(Range(answer.rtts)),
         MaxRtt |-> IF recv = 0 THEN 0 ELSE MaxOf(Range(answer.rtts)),
         AvgRtt |-> IF recv = 0 THEN 0 ELSE SumSeq(answer.rtts) \div recv]

\* the PingResult built from the statistics
MakeResultInvertedLoss(target, cfg, ip, stats) ==
    [nil |-> FALSE,
     PacketLoss |-> [num |-> 100 * stats.PacketLoss.den - stats.PacketLoss.num,
                     den |-> stats.PacketLoss.den],
     MinLatencyMs |-> LatencyMs(stats.MinRtt),
     MaxLatencyMs |-> LatencyMs(stats.MaxRtt),
     AvgLatencyMs |-> LatencyMs(stats.AvgRtt),
     IP |-> ip.str,
     IPType |-> target.IPType]

MakeResult(target, cfg, ip, stats) ==
    [nil |-> FALSE,
     PacketLoss |-> stats.PacketLoss,
     MinLatencyMs |-> LatencyMs(stats.MinRtt),
     MaxLatencyMs |-> LatencyMs(stats.MaxRtt),
     AvgLatencyMs |-> LatencyMs(stats.AvgRtt),
     IP |-> ip.str,
     IPType |-> target.IPType]

\* pingTarget, second half: the pinger for resolvedIP.  Yields [result, err].
RunPingerLossIsError(target, cfg, ip, answer) ==
    IF answer.newPingerErr THEN [result |-> NilResult, err |-> ErrNewPinger]
    ELSE IF answer.runErr \/ answer.rtts = <<>>
         THEN [result |-> NilResult, err |-> ErrRun]
    ELSE [result |-> MakeResult(target, cfg, ip, Statistics(answer)), err |-> NoErr]

RunPinger(target, cfg, ip, answer) ==
    IF answer.newPingerErr THEN [result |-> NilResult, err |-> ErrNewPinger]
    ELSE IF answer.runErr THEN [result |-> NilResult, err |-> ErrRun]
    ELSE [result |-> MakeResult(target, cfg, ip, Statistics(answer)), err |-> NoErr]

\* pingTarget(target, config) under the network's answers
pingTarget(target, cfg, lookup, pinger) ==
    LET r == Resolve(target, lookup)
    IN  IF r.err # NoErr THEN [result |-> NilResult, err |-> r.err]
        ELSE RunPinger(target, cfg, r.ip, pinger)

\* the answers the network can give
\* the lookup fails, or answers addresses of one family only
LookupAnswers ==
    {LookupAnswer(TRUE, <<>>), LookupAnswer(FALSE, <<IPv4Addr>>),
     LookupAnswer(FALSE, <<IPv6Addr>>)}

\* the pinger fails, or sends Count packets and gets no reply or every reply
PingerAnswers(cfg) ==
    {PingerAnswer(TRUE, FALSE, 0, <<>>), PingerAnswer(FALSE, TRUE, 0, <<>>),
     PingerAnswer(FALSE, FALSE, cfg.Count, <<>>),
     PingerAnswer(FALSE, FALSE, cfg.Count, [i \in 1..cfg.Count |-> 1500])}

\* ------------------------------------------------------- Go channel model
MakeChanOneShort(capacity) == [buf |-> <<>>, cap |-> capacity - 1, closed |-> FALSE]
MakeChan(capacity) == [buf |-> <<>>, cap |-> capacity, closed |-> FALSE]
CanSend(c) == c.closed \/ Len(c.buf) < c.cap   \* a send on a closed channel panics
CanRecv(c) == c.buf # <<>>
Drained(c) == c.closed /\ c.buf = <<>>          \* a range loop over c ends

Workers == DOMAIN wpc
Started == {w \in Workers : wpc[w] # "none"}

\* ------------------------------------------------ files, lines and numerals
\* What a path holds: nothing that opens, or the lines a bufio.Scanner yields
\* before it stops, and whether it stopped on a read error (scanner.Err()).
\* A line is kept as the sequence of the pieces its parser splits it into.
NoFile == [open |-> FALSE, lines |-> <<>>, scanErr |-> FALSE]
File(lines, scanErr) == [open |-> TRUE, lines |-> lines, scanErr |-> scanErr]

\* the loop over candidate paths: the first one os.Open opens, if any
OpenFirst(paths) ==
    LET idx == {i \in 1..Len(paths) : paths[i].open}
    IN  IF idx = {} THEN NoFile ELSE paths[MinOf(idx)]

\* the numerals that occur in the inputs
Numerals == 0..9
SignedNumerals == -9..9

\* strconv.ParseUint(s, 10, 64): value 0 with an error for anything else
ParseUint(s) ==
    LET hit == {n \in Numerals : ToString(n) = s}
    IN  IF hit = {} THEN [v |-> 0, err |-> TRUE]
        ELSE [v |-> CHOOSE n \in hit : TRUE, err |-> FALSE]

\* strconv.ParseInt(s, 10, 64)
ParseInt(s) ==
    LET hit == {n \in SignedNumerals : ToString(n) = s}
    IN  IF hit = {} THEN [v |-> 0, err |-> TRUE]
        ELSE [v |-> CHOOSE n \in hit : TRUE, err |-> FALSE]

\* strconv.ParseFloat(s, 64), on the whole numbers of the inputs
ParseFloat(s) == ParseInt(s)

\* the texts, without surrounding blanks, that occur in the inputs
Words ==
    {"", "a.example", "b.example", "lo", "eth0", "eth1", "Inter-|", "face", "tcp", "udp", "TCP", "UDP", "web",
     "# leases", "80", "8080", "10.0.0.2"}

\* strings.TrimSuffix(s, suffix)
TrimSuffix(s, suffix) ==
    IF \E w \in Words : w \o suffix = s
    THEN CHOOSE w \in Words : w \o suffix = s
    ELSE s

\* strings.TrimSpace, for at most one blank on each side
TrimLeft(s) ==
    IF \E w \in Words : " " \o w = s \/ " " \o w \o " " = s
    THEN IF \E w \in Words : " " \o w = s
         THEN CHOOSE w \in Words : " " \o w = s
         ELSE (CHOOSE w \in Words : " " \o w \o " " = s) \o " "
    ELSE s
TrimRight(s) ==
    IF \E w \in Words : w \o " " = s \/ " " \o w \o " " = s
    THEN IF \E w \in Words : w \o " " = s
         THEN CHOOSE w \in Words : w \o " " = s
         ELSE " " \o (CHOOSE w \in Words : " " \o w \o " " = s)
    ELSE s
TrimSpace(s) == TrimLeft(TrimRight(s))

\* strings.HasPrefix(s, prefix), for the texts that follow a prefix in the inputs
Tails == {"", " leases"}
HasPrefix(s, prefix) == \E t \in Tails : prefix \o t = s

\* strings.ToUpper
ToUpper(s) ==
    CASE s = "tcp" -> "TCP"
      [] s = "udp" -> "UDP"
      [] OTHER -> s

\* all the samples of a list of sample lists, in order
RECURSIVE Flatten(_)
Flatten(ss) == IF ss = <<>> THEN <<>> ELSE Head(ss) \o Flatten(Tail(ss))

\* strings.Join(pieces, sep)
RECURSIVE Join(_, _)
Join(pieces, sep) ==
    IF pieces = <<>> THEN ""
    ELSE IF Len(pieces) = 1 THEN pieces[1]
    ELSE pieces[1] \o sep \o Join(Tail(pieces), sep)

\* strings.SplitN(line, ":", n) of a line kept as its pieces between colons
SplitN(pieces, n) ==
    IF Len(pieces) <= n THEN pieces
    ELSE SubSeq(pieces, 1, n - 1) \o <<Join(SubSeq(pieces, n, Len(pieces)), ":")>>

\* ------------------------------------------------- source: interface stats
\* NewNetworkCollector
rxBytes == [name |-> "openwrt_network_receive_bytes_total", labels |-> <<"interface">>]
txBytes == [name |-> "openwrt_network_transmit_bytes_total", labels |-> <<"interface">>]
rxPackets == [name |-> "openwrt_network_receive_packets_total", labels |-> <<"interface">>]
txPackets == [name |-> "openwrt_network_transmit_packets_total", labels |-> <<"interface">>]
uptime == [name |-> "openwrt_network_uptime_seconds", labels |-> <<"interface">>]

NetworkInterface(name, rxB, txB, rxP, txP) ==
    [Name |-> name, RxBytes |-> rxB, TxBytes |-> txB, RxPackets |-> rxP, TxPackets |-> txP]

\* the body of the loop over the lines of /proc/net/dev, fields = strings.Fields(line)
NetworkLineKept(fields) ==
    /\ Len(fields) >= 17
    /\ TrimSuffix(fields[1], ":") # "lo"
NetworkLineRecord(fields) ==
    NetworkInterface(TrimSuffix(fields[1], ":"),
                     ParseUint(fields[2]).v, ParseUint(fields[10]).v,
                     ParseUint(fields[3]).v, ParseUint(fields[11]).v)

\* getNetworkInterfaces, procNetDev being what /proc/net/dev holds
getNetworkInterfaces(procNetDev) ==
    IF ~procNetDev.open THEN [interfaces |-> <<>>, err |-> TRUE]
    ELSE LET body == SubSeq(procNetDev.lines, 3, Len(procNetDev.lines))
             kept == SelectSeq(body, NetworkLineKept)
         IN  [interfaces |-> [i \in 1..Len(kept) |-> NetworkLineRecord(kept[i])],
              err |-> procNetDev.scanErr]

\* getInterfaceUptime, procUptime being what /proc/uptime holds
getInterfaceUptime(procUptime) ==
    IF ~procUptime.open THEN 0
    ELSE LET fields == IF procUptime.lines = <<>> THEN <<>> ELSE procUptime.lines[1]
         IN  IF Len(fields) < 1 THEN 0
             ELSE IF ParseFloat(fields[1]).err THEN 0
             ELSE ParseFloat(fields[1]).v

\* what NetworkCollector.Collect sends to ch
NetworkSamples(in) ==
    LET got == getNetworkInterfaces(in.procNetDev)
        perIface(iface) ==
            <<Metric(rxBytes, iface.RxBytes, <<iface.Name>>),
              Metric(txBytes, iface.TxBytes, <<iface.Name>>),
              Metric(rxPackets, iface.RxPackets, <<iface.Name>>),
              Metric(txPackets, iface.TxPackets, <<iface.Name>>),
              Metric(uptime, getInterfaceUptime(in.procUptime), <<iface.Name>>)>>
    IN  IF got.err THEN <<>>
        ELSE Flatten([i \in 1..Len(got.interfaces) |-> perIface(got.interfaces[i])])

\* ------------------------------------------------ source: device presence
\* NewDeviceCollector
deviceLabels == <<"hostname", "ip", "mac">>
deviceInfo == [name |-> "openwrt_device_info", labels |-> deviceLabels]
deviceOnlineTime == [name |-> "openwrt_device_online_seconds", labels |-> deviceLabels]
deviceLeaseRemain ==
    [name |-> "openwrt_device_dhcp_lease_remaining_seconds", labels |-> deviceLabels]

ConnectedDevice(hostname, ip, mac, onlineTime, leaseRemain) ==
    [Hostname |-> hostname, IP |-> ip, MAC |-> mac,
     OnlineTime |-> onlineTime, LeaseRemain |-> leaseRemain]

\* the body of parseDHCPLeases' loop, fields = strings.Fields(line)
DHCPLineRecordUnclamped(fields, now) ==
    LET expiryTime == ParseInt(fields[1]).v
    IN  ConnectedDevice(IF fields[4] = "*" THEN "" ELSE fields[4], fields[3], fields[2],
                        0, expiryTime - now)
DHCPLineRecord(fields, now) ==
    LET expiryTime == ParseInt(fields[1]).v
    IN  ConnectedDevice(IF fields[4] = "*" THEN "" ELSE fields[4], fields[3], fields[2],
                        0, IF expiryTime > now THEN expiryTime - now ELSE 0)

\* parseDHCPLeases, leasePaths being what the three candidate paths hold
parseDHCPLeases(leasePaths, now) ==
    LET file == OpenFirst(leasePaths)
        kept == SelectSeq(file.lines, LAMBDA fields : Len(fields) >= 4)
    IN  IF ~file.open THEN [devices |-> <<>>, err |-> TRUE]
        ELSE [devices |-> [i \in 1..Len(kept) |-> DHCPLineRecord(kept[i], now)],
              err |-> file.scanErr]

\* the lladdr search of parseIPNeigh: the field after the first "lladdr"
LinkLayerAddr(fields) ==
    LET idx == {i \in 1..Len(fields) : fields[i] = "lladdr" /\ i < Len(fields)}
    IN  IF idx = {} THEN "" ELSE fields[MinOf(idx) + 1]

\* parseIPNeigh, output being the lines the command printed
parseIPNeigh(output) ==
    LET kept == SelectSeq(output,
                    LAMBDA fields : Len(fields) >= 5 /\ LinkLayerAddr(fields) # "")
    IN  [devices |-> [i \in 1..Len(kept) |->
                        ConnectedDevice("", kept[i][1], LinkLayerAddr(kept[i]), 0, 0)],
         err |-> FALSE]

\* parseARPTable: `ip neigh show` first, /proc/net/arp when the command fails
parseARPTable(ipNeigh, procNetArp) ==
    IF ipNeigh.ok THEN parseIPNeigh(ipNeigh.output)
    ELSE IF ~procNetArp.open THEN [devices |-> <<>>, err |-> TRUE]
    ELSE LET body == SubSeq(procNetArp.lines, 2, Len(procNetArp.lines))
             kept == SelectSeq(body,
                         LAMBDA fields : /\ Len(fields) >= 4
                                         /\ ~(\/ fields[4] = "00:00:00:00:00:00"
                                              \/ fields[3] = "0x0"))
         IN  [devices |-> [i \in 1..Len(kept) |->
                             ConnectedDevice("", kept[i][1], kept[i][4], 0, 0)],
              err |-> procNetArp.scanErr]

\* the composite key of getConnectedDevices' map
DeviceKey(d) == d.MAC \o "|" \o d.IP

\* devices[key] after the loop over the DHCP records: the last one written
LastWithKey(ds, key) ==
    ds[MaxOf({i \in 1..Len(ds) : DeviceKey(ds[i]) = key})]
\* devices[key] after the loop over the ARP records: the first one written
FirstWithKey(ds, key) ==
    ds[MinOf({i \in 1..Len(ds) : DeviceKey(ds[i]) = key})]

\* getConnectedDevices' map devices, before it is turned into a slice
DeviceMapArpWins(in) ==
    LET dhcp == parseDHCPLeases(in.leasePaths, in.now)
        arp == parseARPTable(in.ipNeigh, in.procNetArp)
        dhcpDevices == IF dhcp.err THEN <<>> ELSE dhcp.devices
        arpDevices == IF arp.err THEN <<>> ELSE arp.devices
        dhcpKeys == {DeviceKey(dhcpDevices[i]) : i \in 1..Len(dhcpDevices)}
        arpKeys == {DeviceKey(arpDevices[i]) : i \in 1..Len(arpDevices)}
    IN  [key \in dhcpKeys \cup arpKeys |->
            IF key \in arpKeys THEN FirstWithKey(arpDevices, key)
            ELSE LastWithKey(dhcpDevices, key)]
DeviceMap(in) ==
    LET dhcp == parseDHCPLeases(in.leasePaths, in.now)
        arp == parseARPTable(in.ipNeigh, in.procNetArp)
        dhcpDevices == IF dhcp.err THEN <<>> ELSE dhcp.devices
        arpDevices == IF arp.err THEN <<>> ELSE arp.devices
        dhcpKeys == {DeviceKey(dhcpDevices[i]) : i \in 1..Len(dhcpDevices)}
        arpKeys == {DeviceKey(arpDevices[i]) : i \in 1..Len(arpDevices)}
    IN  [key \in dhcpKeys \cup arpKeys |->
            IF key \in dhcpKeys THEN LastWithKey(dhcpDevices, key)
            ELSE FirstWithKey(arpDevices, key)]

\* getConnectedDevices: the slices the range over the map can build (Go leaves
\* the order of a map's keys open); its error is always nil
getConnectedDevices(in) ==
    LET devices == DeviceMap(in)
        keys == {key \in DOMAIN devices : devices[key].IP # "" \/ devices[key].MAC # ""}
        orders == {o \in [1..Cardinality(keys) -> keys] :
                      \A i, j \in 1..Cardinality(keys) : o[i] = o[j] => i = j}
    IN  {[i \in 1..Cardinality(keys) |-> devices[o[i]]] : o \in orders}

\* what DeviceCollector.Collect sends to ch for the slice devices
DeviceSamplesNoMac(devices) ==
    LET labelsOf(d) == <<d.Hostname, d.IP>>
        perDevice(d) ==
            <<Metric(deviceInfo, 1, labelsOf(d))>>
            \o (IF d.OnlineTime > 0
                THEN <<Metric(deviceOnlineTime, d.OnlineTime, labelsOf(d))>> ELSE <<>>)
            \o (IF d.LeaseRemain > 0
                THEN <<Metric(deviceLeaseRemain, d.LeaseRemain, labelsOf(d))>> ELSE <<>>)
    IN  Flatten([i \in 1..Len(devices) |-> perDevice(devices[i])])
DeviceSamples(devices) ==
    LET labelsOf(d) == <<d.Hostname, d.IP, d.MAC>>
        perDevice(d) ==
            <<Metric(deviceInfo, 1, labelsOf(d))>>
            \o (IF d.OnlineTime > 0
                THEN <<Metric(deviceOnlineTime, d.OnlineTime, labelsOf(d))>> ELSE <<>>)
            \o (IF d.LeaseRemain > 0
                THEN <<Metric(deviceLeaseRemain, d.LeaseRemain, labelsOf(d))>> ELSE <<>>)
    IN  Flatten([i \in 1..Len(devices) |-> perDevice(devices[i])])

\* --------------------------------------------------- source: UPnP mappings
\* NewUPnPCollector
upnpLabels == <<"protocol", "external_port", "internal_ip", "internal_port", "description">>
upnpInfo == [name |-> "openwrt_upnp_mapping_info", labels |-> upnpLabels]
upnpLeaseSeconds == [name |-> "openwrt_upnp_mapping_lease_seconds", labels |-> upnpLabels]
upnpMappingCount == [name |-> "openwrt_upnp_mapping_count", labels |-> <<>>]

UPnPMapping(protocol, externalPort, internalIP, internalPort, leaseSeconds, description) ==
    [Protocol |-> protocol, ExternalPort |-> externalPort, InternalIP |-> internalIP,
     InternalPort |-> internalPort, LeaseSeconds |-> leaseSeconds,
     Description |-> description]

\* strings.TrimSpace(scanner.Text()) of a line kept as its pieces between colons
TrimLine(pieces) ==
    [i \in 1..Len(pieces) |->
        IF i = 1 /\ i = Len(pieces) THEN TrimSpace(pieces[i])
        ELSE IF i = 1 THEN TrimLeft(pieces[i])
        ELSE IF i = Len(pieces) THEN TrimRight(pieces[i])
        ELSE pieces[i]]

\* line == "" || strings.HasPrefix(line, "#")
UPnPLineSkipped(pieces) == pieces = <<"">> \/ HasPrefix(pieces[1], "#")

\* the record of a line with at least 6 fields
UPnPLineRecord(fields) ==
    LET leaseSeconds == IF Len(fields) = 6 THEN ParseFloat(fields[5]).v
                        ELSE ParseFloat(fields[6]).v
        description == TrimSpace(IF Len(fields) = 6 THEN fields[6] ELSE fields[7])
    IN  UPnPMapping(ToUpper(fields[1]), fields[2], fields[3], fields[4], leaseSeconds,
                    IF description = "" THEN "unknown" ELSE description)

\* parseMiniUPnPDLeases
parseMiniUPnPDLeases(file) ==
    LET trimmed == [i \in 1..Len(file.lines) |-> TrimLine(file.lines[i])]
        read == SelectSeq(trimmed, LAMBDA pieces : ~UPnPLineSkipped(pieces))
        split == [i \in 1..Len(read) |-> SplitN(read[i], 7)]
        kept == SelectSeq(split, LAMBDA fields : Len(fields) >= 6)
    IN  [mappings |-> [i \in 1..Len(kept) |-> UPnPLineRecord(kept[i])],
         err |-> file.scanErr]

\* getUPnPMappings, leasePaths being what the three candidate paths hold
getUPnPMappingsMissingIsEmpty(leasePaths) ==
    LET file == OpenFirst(leasePaths)
    IN  IF ~file.open THEN [mappings |-> <<>>, err |-> FALSE]
        ELSE parseMiniUPnPDLeases(file)
getUPnPMappings(leasePaths) ==
    LET file == OpenFirst(leasePaths)
    IN  IF ~file.open THEN [mappings |-> <<>>, err |-> TRUE]
        ELSE parseMiniUPnPDLeases(file)

\* what UPnPCollector.Collect sends to ch
UPnPSamplesCountAlways(in) ==
    LET got == getUPnPMappings(in.leasePaths)
    IN  <<Metric(upnpMappingCount, Len(got.mappings), <<>>)>>
UPnPSamples(in) ==
    LET got == getUPnPMappings(in.leasePaths)
        labelsOf(m) ==
            <<m.Protocol, m.ExternalPort, m.InternalIP, m.InternalPort, m.Description>>
        perMapping(m) ==
            <<Metric(upnpInfo, 1, labelsOf(m)),
              Metric(upnpLeaseSeconds, m.LeaseSeconds, labelsOf(m))>>
    IN  IF got.err THEN <<>>
        ELSE <<Metric(upnpMappingCount, Len(got.mappings), <<>>)>>
             \o Flatten([i \in 1..Len(got.mappings) |-> perMapping(got.mappings[i])])

\* ------------------------------------------------ what the router may hold
\* /proc/net/dev: two header lines, then one line of 17 fields per interface
NetHeader == <<<<"Inter-|", "Receive", "|", "Transmit">>, <<"face", "|bytes", "packets">>>>
NetLine(name, rxB, rxP, txB, txP) ==
    <<name \o ":", ToString(rxB), ToString(rxP), "0", "0", "0", "0", "0", "0",
      ToString(txB), ToString(txP), "0", "0", "0", "0", "0", "0">>

\* /proc/net/dev is missing; holds the headers only; holds lo and eth0; holds
\* eth0, a line cut short and a line with a counter that is no number; is cut
\* off by a read error after eth0
ProcNetDevs ==
    {NoFile,
     File(NetHeader, FALSE),
     File(NetHeader \o <<NetLine("lo", 1, 1, 1, 1), NetLine("eth0", 9, 3, 8, 2)>>, FALSE),
     File(NetHeader \o <<NetLine("eth0", 9, 3, 8, 2), <<"eth1:", "4", "2">>,
                         [NetLine("eth1", 4, 2, 6, 1) EXCEPT ![2] = "x"]>>, FALSE),
     File(NetHeader \o <<NetLine("eth0", 9, 3, 8, 2)>>, TRUE)}

NetworkInputs ==
    {[procNetDev |-> f, procUptime |-> File(<<<<"7", "3">>>>, FALSE)] : f \in ProcNetDevs}
    \cup {[procNetDev |-> f, procUptime |-> NoFile] : f \in {NoFile}}

\* dnsmasq lease lines, <expiry> <mac> <ip> <hostname> <client id>, at time 5
MacA == "aa:aa"
MacB == "bb:bb"
MacC == "cc:cc"
LeaseFile ==
    File(<<<<"9", MacA, "10.0.0.2", "phone", "*">>,
           <<"3", MacB, "10.0.0.3", "*", "*">>,
           <<"9", MacC>>>>, FALSE)
NeighOutput ==
    <<<<"10.0.0.2", "dev", "br-lan", "lladdr", MacA, "REACHABLE">>,
      <<"10.0.0.4", "dev", "br-lan", "router", "FAILED">>>>
ArpFile ==
    File(<<<<"IP", "HWtype", "Flags", "HWaddress", "Mask", "Device">>,
           <<"10.0.0.4", "0x1", "0x2", MacC, "*", "br-lan">>,
           <<"10.0.0.5", "0x1", "0x0", "00:00:00:00:00:00", "*", "br-lan">>>>, FALSE)

DeviceInput(leasePaths, ipNeigh, procNetArp) ==
    [leasePaths |-> leasePaths, now |-> 5, ipNeigh |-> ipNeigh, procNetArp |-> procNetArp]
CommandFailed == [ok |-> FALSE, output |-> <<>>]
CommandOutput(lines) == [ok |-> TRUE, output |-> lines]

\* nothing is there; leases and neighbours; the ARP file alone; leases alone,
\* at the third path
DeviceInputs ==
    {DeviceInput(<<NoFile, NoFile, NoFile>>, CommandFailed, NoFile),
     DeviceInput(<<LeaseFile, NoFile, NoFile>>, CommandOutput(NeighOutput), NoFile),
     DeviceInput(<<NoFile, NoFile, NoFile>>, CommandFailed, ArpFile),
     DeviceInput(<<NoFile, NoFile, LeaseFile>>, CommandFailed, NoFile)}

\* miniupnpd lease lines, as their pieces between colons
UPnPLeaseFile ==
    File(<<<<"# leases">>,
           <<"tcp", "80", "10.0.0.2", "8080", "7", "web">>,
           <<"udp", "80", "10.0.0.2", "8080", "5", "0", " ">>,
           <<"">>,
           <<"tcp", "80">>>>, FALSE)

\* no lease file; an empty one; one with mappings, at the second path; one cut
\* off by a read error
UPnPInputs ==
    {[leasePaths |-> paths] :
        paths \in {<<NoFile, NoFile, NoFile>>,
                   <<File(<<>>, FALSE), NoFile, NoFile>>,
                   <<NoFile, UPnPLeaseFile, NoFile>>,
                   <<File(<<<<"tcp", "80", "10.0.0.2", "8080", "7", "web">>>>, TRUE),
                     NoFile, NoFile>>}}

\* a collector whose Collect has not been called in this scrape
NoNetworkInput == [procNetDev |-> NoFile, procUptime |-> NoFile]
NoDeviceInput == DeviceInput(<<NoFile, NoFile, NoFile>>, CommandFailed, NoFile)
NoUPnPInput == [leasePaths |-> <<NoFile, NoFile, NoFile>>]
SourcesIdle ==
    /\ network = [pc |-> "idle", in |-> NoNetworkInput]
    /\ device = [pc |-> "idle", in |-> NoDeviceInput]
    /\ upnp = [pc |-> "idle", in |-> NoUPnPInput]

\* main has not run yet
ExporterIdle ==
    /\ serverPc = "start"
    /\ registry = {}
    /\ scrape = "none"
    /\ scrapeNo = 0

\* ------------------------------------------------------------------- Init
\* the values of a worker's locals outside a pingTarget call
NoTarget == CHOOSE t \in PingTargets : TRUE
NoLookup == LookupAnswer(FALSE, <<>>)
NoPinger == PingerAnswer(FALSE, FALSE, 0, <<>>)

\* loadPingConfig's defaults
DefaultCount == 10
DefaultConcurrency == 10

\* The target lists tried: all of one family, and the two families in turn.
TargetV4 == [Host |-> "a.example", IPType |-> IPTypeIPv4]
TargetV6 == [Host |-> "a.example", IPType |-> IPTypeIPv6]
TargetLists(n) ==
    {[i \in 1..k |-> TargetV4] : k \in 0..n} \cup
    {[i \in 1..k |-> IF i % 2 = 1 THEN TargetV6 ELSE TargetV4] : k \in 0..n}

\* three targets on two workers (more targets than workers, more than one worker)
ScenarioConfig ==
    [Targets |-> <<TargetV4, TargetV6, TargetV4>>, Count |-> DefaultCount, Concurrency |-> 2]

Configs ==
    {[Targets |-> ts, Count |-> DefaultCount, Concurrency |-> c] :
        ts \in TargetLists(MaxTargets), c \in 1..MaxConcurrency}
    \cup {ScenarioConfig}

PingInit ==
    /\ mainPc = "start"
    /\ workerCount = 0
    /\ spawned = 0
    /\ nextTask = 0
    /\ tasksCh = MakeChan(0)
    /\ resultsCh = MakeChan(0)
    /\ wg = 0
    /\ wpc = [w \in 1..config.Concurrency |-> "none"]
    /\ wtarget = [w \in 1..config.Concurrency |-> NoTarget]
    /\ wips = [w \in 1..config.Concurrency |-> NoLookup]
    /\ wip = [w \in 1..config.Concurrency |-> NoIP]
    /\ closerPc = "none"
    /\ ch = <<>>
    /\ panicked = FALSE
    /\ received = <<>>
    /\ pingers = 0
    /\ calls = EmptyBag
    /\ returns = EmptyBag

NoCall == [fn |-> "none", in |-> <<>>, out |-> <<>>]

NoProbe ==
    [done |-> FALSE, target |-> NoTarget, lookup |-> NoLookup, pinger |-> NoPinger,
     result |-> NilResult, err |-> NoErr]

Init ==
    /\ config \in Configs
    /\ PingInit
    /\ probe = NoProbe
    /\ called = NoCall
    /\ SourcesIdle
    /\ ExporterIdle

\* ---------------------------------------------------- Collect: main goroutine
\* workerCount := c.config.Concurrency, clamped to len(Targets)
WorkerCountUnclamped(cfg) == cfg.Concurrency

WorkerCount(cfg) ==
    IF cfg.Concurrency > Len(cfg.Targets) THEN Len(cfg.Targets) ELSE cfg.Concurrency

\* the early return on no targets; else the two channels and workerCount
CollectStart ==
    /\ mainPc = "start"
    /\ IF Len(config.Targets) = 0
       THEN /\ mainPc' = "returned"
            /\ UNCHANGED <<tasksCh, resultsCh, workerCount>>
       ELSE /\ tasksCh' = MakeChan(Len(config.Targets))
            /\ resultsCh' = MakeChan(Len(config.Targets))
            /\ workerCount' = WorkerCount(config)
            /\ mainPc' = "spawn"
    /\ UNCHANGED <<config, spawned, nextTask, wg, workerVars, closerPc, ch, panicked,
                   histVars>>
    /\ UNCHANGED nonPingVars

\* one iteration of the worker-start loop: wg.Add(1); go func() {...}()
SpawnWorker ==
    /\ mainPc = "spawn" /\ ~panicked
    /\ IF spawned < workerCount
       THEN /\ wg' = wg + 1
            /\ wpc' = [wpc EXCEPT ![spawned + 1] = "recv"]
            /\ spawned' = spawned + 1
            /\ UNCHANGED mainPc
       ELSE /\ mainPc' = "produce"
            /\ UNCHANGED <<wg, wpc, spawned>>
    /\ UNCHANGED <<config, workerCount, nextTask, tasksCh, resultsCh, wtarget, wips,
                   wip, closerPc, ch, panicked, histVars>>
    /\ UNCHANGED nonPingVars

\* the targets the producer loop ranges over
ProducerListSkipFirst(cfg) == Tail(cfg.Targets)

ProducerList(cfg) == cfg.Targets

CloseTasksForgotten(c) == c

\* close(tasksCh)
CloseTasks(c) == [c EXCEPT !.closed = TRUE]

\* one iteration of the producer loop: tasksCh <- target; then close(tasksCh)
SendTask ==
    /\ mainPc = "produce" /\ ~panicked
    /\ IF nextTask < Len(ProducerList(config))
       THEN /\ CanSend(tasksCh)
            /\ tasksCh' = [tasksCh EXCEPT !.buf = Append(@, ProducerList(config)[nextTask + 1])]
            /\ nextTask' = nextTask + 1
            /\ UNCHANGED mainPc
       ELSE /\ tasksCh' = CloseTasks(tasksCh)
            /\ mainPc' = "goCloser"
            /\ UNCHANGED nextTask
    /\ UNCHANGED <<config, workerCount, spawned, resultsCh, wg, workerVars, closerPc,
                   ch, panicked, histVars>>
    /\ UNCHANGED nonPingVars

\* go func() { wg.Wait(); close(resultsCh) }()
StartCloser ==
    /\ mainPc = "goCloser" /\ ~panicked
    /\ closerPc' = "wait"
    /\ mainPc' = "consume"
    /\ UNCHANGED <<config, workerCount, spawned, nextTask, tasksCh, resultsCh, wg,
                   workerVars, ch, panicked, histVars>>
    /\ UNCHANGED nonPingVars

\* the samples Collect sends for one received result
SamplesAlways(r) ==
    IF r.err # NoErr
    THEN <<Metric(packetLoss, [num |-> 100, den |-> 1], <<r.target.Host, "", r.target.IPType>>)>>
    ELSE <<Metric(avgLatencyMs, r.result.AvgLatencyMs, <<r.target.Host, r.result.IP, r.result.IPType>>),
           Metric(minLatencyMs, r.result.MinLatencyMs, <<r.target.Host, r.result.IP, r.result.IPType>>),
           Metric(maxLatencyMs, r.result.MaxLatencyMs, <<r.target.Host, r.result.IP, r.result.IPType>>),
           Metric(packetLoss, r.result.PacketLoss, <<r.target.Host, r.result.IP, r.result.IPType>>)>>

SamplesOf(r) ==
    IF r.err # NoErr THEN <<>>
    ELSE <<Metric(avgLatencyMs, r.result.AvgLatencyMs, <<r.target.Host, r.result.IP, r.result.IPType>>),
           Metric(minLatencyMs, r.result.MinLatencyMs, <<r.target.Host, r.result.IP, r.result.IPType>>),
           Metric(maxLatencyMs, r.result.MaxLatencyMs, <<r.target.Host, r.result.IP, r.result.IPType>>),
           Metric(packetLoss, r.result.PacketLoss, <<r.target.Host, r.result.IP, r.result.IPType>>)>>

\* one iteration of for r := range resultsCh, or the loop's end and the return
Consume ==
    /\ mainPc = "consume" /\ ~panicked
    /\ \/ /\ CanRecv(resultsCh)
          /\ resultsCh' = [resultsCh EXCEPT !.buf = Tail(@)]
          /\ received' = Append(received, Head(resultsCh.buf))
          /\ ch' = ch \o SamplesOf(Head(resultsCh.buf))
          /\ UNCHANGED mainPc
       \/ /\ Drained(resultsCh)
          /\ mainPc' = "returned"
          /\ UNCHANGED <<resultsCh, ch, received>>
    /\ UNCHANGED <<config, workerCount, spawned, nextTask, tasksCh, wg, workerVars,
                   closerPc, panicked, pingers, calls, returns>>
    /\ UNCHANGED nonPingVars

\* ------------------------------------------------------- Collect: a worker
\* for target := range tasksCh: take the next target and call pingTarget, or
\* leave the loop when the channel is closed and empty (the deferred wg.Done)
WorkerRecv(w) ==
    /\ wpc[w] = "recv" /\ ~panicked
    /\ \/ /\ CanRecv(tasksCh)
          /\ tasksCh' = [tasksCh EXCEPT !.buf = Tail(@)]
          /\ wtarget' = [wtarget EXCEPT ![w] = Head(tasksCh.buf)]
          /\ calls' = calls (+) SetToBag({Head(tasksCh.buf)})
          /\ wpc' = [wpc EXCEPT ![w] = "lookup"]
          /\ UNCHANGED wg
       \/ /\ Drained(tasksCh)
          /\ wg' = wg - 1
          /\ wpc' = [wpc EXCEPT ![w] = "done"]
          /\ UNCHANGED <<tasksCh, wtarget, calls>>
    /\ UNCHANGED <<config, mainVars, resultsCh, wips, wip, closerPc, ch, panicked,
                   received, pingers, returns>>
    /\ UNCHANGED nonPingVars

\* the pingResultWithTarget a worker sends
SentResultFirstTarget(target, r) ==
    [target |-> config.Targets[1], result |-> r.result, err |-> r.err]
SentResult(target, r) == [target |-> target, result |-> r.result, err |-> r.err]

\* resultsCh <- pingResultWithTarget{target, result, err}, and back to the
\* head of the range loop; a send on a closed channel panics
SendResultSkipErrors(w, r) ==
    /\ CanSend(resultsCh)
    /\ IF resultsCh.closed
       THEN /\ panicked' = TRUE
            /\ UNCHANGED <<resultsCh, workerVars>>
       ELSE /\ resultsCh' = IF r.err # NoErr THEN resultsCh
                            ELSE [resultsCh EXCEPT !.buf = Append(@, SentResult(wtarget[w], r))]
            /\ wpc' = [wpc EXCEPT ![w] = "recv"]
            /\ wtarget' = [wtarget EXCEPT ![w] = NoTarget]
            /\ wips' = [wips EXCEPT ![w] = NoLookup]
            /\ wip' = [wip EXCEPT ![w] = NoIP]
            /\ UNCHANGED panicked

SendResult(w, r) ==
    /\ CanSend(resultsCh)
    /\ IF resultsCh.closed
       THEN /\ panicked' = TRUE
            /\ UNCHANGED <<resultsCh, workerVars>>
       ELSE /\ resultsCh' = [resultsCh EXCEPT !.buf = Append(@, SentResult(wtarget[w], r))]
            /\ wpc' = [wpc EXCEPT ![w] = "recv"]
            /\ wtarget' = [wtarget EXCEPT ![w] = NoTarget]
            /\ wips' = [wips EXCEPT ![w] = NoLookup]
            /\ wip' = [wip EXCEPT ![w] = NoIP]
            /\ UNCHANGED panicked

\* what pingTarget returned, with the answers it got
Returned(target, lookup, pinger, r) ==
    [target |-> target, lookup |-> lookup, pinger |-> pinger,
     result |-> r.result, err |-> r.err]

\* pingTarget up to resolvedIP: net.LookupIP answers and an address is chosen;
\* on an error pingTarget returns and the worker sends the result
WorkerLookup(w) ==
    /\ wpc[w] = "lookup" /\ ~panicked
    /\ \E answer \in LookupAnswers :
          LET r == Resolve(wtarget[w], answer) IN
          IF r.err # NoErr
          THEN LET ret == [result |-> NilResult, err |-> r.err] IN
               /\ returns' = returns (+) SetToBag({Returned(wtarget[w], answer, NoPinger, ret)})
               /\ SendResult(w, ret)
          ELSE /\ wips' = [wips EXCEPT ![w] = answer]
               /\ wip' = [wip EXCEPT ![w] = r.ip]
               /\ wpc' = [wpc EXCEPT ![w] = "ping"]
               /\ UNCHANGED <<resultsCh, wtarget, panicked, returns>>
    /\ UNCHANGED <<config, mainVars, tasksCh, wg, closerPc, ch, received, pingers, calls>>
    /\ UNCHANGED nonPingVars

\* pingTarget from NewPinger to its return: the probe runs and ends, and the
\* worker sends the result
WorkerPing(w) ==
    /\ wpc[w] = "ping" /\ ~panicked
    /\ \E answer \in PingerAnswers(config) :
          LET r == RunPinger(wtarget[w], config, wip[w], answer) IN
          /\ returns' = returns (+) SetToBag({Returned(wtarget[w], wips[w], answer, r)})
          /\ SendResult(w, r)
    /\ pingers' = pingers + 1
    /\ UNCHANGED <<config, mainVars, tasksCh, wg, closerPc, ch, received, calls>>
    /\ UNCHANGED nonPingVars

\* ------------------------------------------------ Collect: closer goroutine
WaitDoneNoWait(counter) == TRUE

\* wg.Wait() returns once the counter is zero
WaitDone(counter) == counter = 0

CloserWait ==
    /\ closerPc = "wait" /\ ~panicked
    /\ WaitDone(wg)
    /\ closerPc' = "close"
    /\ UNCHANGED <<config, mainVars, tasksCh, resultsCh, wg, workerVars, ch, panicked,
                   histVars>>
    /\ UNCHANGED nonPingVars

\* close(resultsCh)
CloserClose ==
    /\ closerPc = "close" /\ ~panicked
    /\ resultsCh' = [resultsCh EXCEPT !.closed = TRUE]
    /\ closerPc' = "done"
    /\ UNCHANGED <<config, mainVars, tasksCh, wg, workerVars, ch, panicked, histVars>>
    /\ UNCHANGED nonPingVars

\* ---------------------------------------------------------- specification
Next ==
    \/ CollectStart
    \/ SpawnWorker
    \/ SendTask
    \/ StartCloser
    \/ Consume
    \/ \E w \in Workers : WorkerRecv(w)
    \/ \E w \in Workers : WorkerLookup(w)
    \/ \E w \in Workers : WorkerPing(w)
    \/ CloserWait
    \/ CloserClose

Spec == Init /\ [][Next]_vars

\* Go schedules every runnable goroutine, and every pingTarget call returns
FairSpec == Spec /\ WF_vars(Next)

\* --------------------------------------------------- the sequential Collect
\* The loop of the Collect without workers: pingTarget is called once for each
\* target, in the order of the list, answers[target] being what the network
\* answers for that target.  Yields the (target, result, err) of each call.
SequentialCollect(cfg, answers) ==
    [i \in 1..Len(cfg.Targets) |->
        LET target == cfg.Targets[i]
            r == pingTarget(target, cfg, answers[target].lookup, answers[target].pinger)
        IN  [target |-> target, result |-> r.result, err |-> r.err]]

\* ------------------------------------------------- pingTarget on its own
\* Every answer of the network within the bounds: the lookup fails or answers
\* up to two addresses; the pinger fails, or sends 1..Count packets and gets a
\* reply, after 400, 1500 or 2600 ns, to some of them.
AllLookupAnswers ==
    {LookupAnswer(TRUE, <<>>)} \cup
    {LookupAnswer(FALSE, ips) : ips \in SeqsUpTo({IPv4Addr, IPv6Addr, MappedAddr}, 2)}

RttValues == {400, 1500, 2600}

AllPingerAnswers(cfg) ==
    {PingerAnswer(TRUE, FALSE, 0, <<>>), PingerAnswer(FALSE, TRUE, 0, <<>>)} \cup
    UNION {{PingerAnswer(FALSE, FALSE, sent, rtts) : rtts \in SeqsUpTo(RttValues, sent)} :
              sent \in 1..cfg.Count}

FnConfigs ==
    {[Targets |-> <<>>, Count |-> n, Concurrency |-> DefaultConcurrency] : n \in 1..MaxCount}

FnInit ==
    /\ config \in FnConfigs
    /\ PingInit
    /\ probe = NoProbe
    /\ called = NoCall
    /\ SourcesIdle
    /\ ExporterIdle

\* pingTarget(target, config) is called and returns
CallPingTarget ==
    /\ ~probe.done
    /\ \E target \in PingTargets, lookup \in AllLookupAnswers,
          pinger \in AllPingerAnswers(config) :
          LET r == pingTarget(target, config, lookup, pinger) IN
          probe' = [done |-> TRUE, target |-> target, lookup |-> lookup,
                    pinger |-> IF Resolve(target, lookup).err # NoErr THEN NoPinger ELSE pinger,
                    result |-> r.result, err |-> r.err]
    /\ UNCHANGED <<pingVars, called, network, device, upnp, exporterVars>>

FnNext ==
    \/ CallPingTarget

FnSpec == FnInit /\ [][FnNext]_vars

\* ------------------------------------------------------------- one scrape
\* Collect of each collector of the package, called once as a registry that
\* holds the collector calls it in a scrape: each in a goroutine of its own,
\* with one channel ch for the samples of all of them.
ScrapeConfigs ==
    {[Targets |-> ts, Count |-> DefaultCount, Concurrency |-> 1] :
        ts \in {<<>>, <<TargetV4>>}}

ScrapeInit ==
    /\ config \in ScrapeConfigs
    /\ PingInit
    /\ probe = NoProbe
    /\ called = NoCall
    /\ SourcesIdle
    /\ ExporterIdle

\* NetworkCollector.Collect
NetworkCollect ==
    /\ network.pc = "idle"
    /\ \E in \in NetworkInputs :
          /\ network' = [pc |-> "returned", in |-> in]
          /\ ch' = ch \o NetworkSamples(in)
    /\ UNCHANGED <<pingLocalVars, fnVars, device, upnp, exporterVars>>

\* DeviceCollector.Collect
DeviceCollect ==
    /\ device.pc = "idle"
    /\ \E in \in DeviceInputs :
          \E devices \in getConnectedDevices(in) :
              /\ device' = [pc |-> "returned", in |-> in]
              /\ ch' = ch \o DeviceSamples(devices)
    /\ UNCHANGED <<pingLocalVars, fnVars, network, upnp, exporterVars>>

\* UPnPCollector.Collect
UPnPCollect ==
    /\ upnp.pc = "idle"
    /\ \E in \in UPnPInputs :
          /\ upnp' = [pc |-> "returned", in |-> in]
          /\ ch' = ch \o UPnPSamples(in)
    /\ UNCHANGED <<pingLocalVars, fnVars, network, device, exporterVars>>

ScrapeNext ==
    \/ NetworkCollect
    \/ DeviceCollect
    \/ UPnPCollect
    \/ Next

ScrapeSpec == ScrapeInit /\ [][ScrapeNext]_vars

\* ------------------------------------------------------------ loadPingConfig
\* A configured duration (Interval, Timeout) is kept as a whole number of
\* microseconds: the default timeout in nanoseconds is beyond the integers of
\* the model checker.
Microsecond == 1
Millisecond == 1000 * Microsecond
Second == 1000 * Millisecond

DefaultInterval == 10 * Millisecond
DefaultTimeout == 3 * Second

\* strconv.Atoi(s): an optional sign, then digits
Atoi(s) ==
    LET plus == {n \in Numerals : "+" \o ToString(n) = s}
    IN  IF plus # {} THEN [v |-> CHOOSE n \in plus : TRUE, err |-> FALSE]
        ELSE ParseInt(s)

\* time.ParseDuration(s): a signed number with a unit, or "0"
DurationUnits == {[suffix |-> "us", len |-> Microsecond],
                  [suffix |-> "ms", len |-> Millisecond],
                  [suffix |-> "s", len |-> Second]}
ParseDuration(s) ==
    LET hit == {p \in SignedNumerals \X DurationUnits : ToString(p[1]) \o p[2].suffix = s}
    IN  IF s = "0" THEN [v |-> 0, err |-> FALSE]
        ELSE IF hit = {} THEN [v |-> 0, err |-> TRUE]
        ELSE LET p == CHOOSE q \in hit : TRUE
             IN  [v |-> p[1] * p[2].len, err |-> FALSE]

\* the targets of one of the two target variables: strings.Split(env, ","),
\* the variable's value being kept as its pieces between commas
TargetsOf(pieces, ipType) ==
    LET trimmed == [i \in 1..Len(pieces) |-> TrimSpace(pieces[i])]
        hosts == SelectSeq(trimmed, LAMBDA target : target # "")
    IN  IF pieces = <<"">> THEN <<>>
        ELSE [i \in 1..Len(hosts) |-> [Host |-> hosts[i], IPType |-> ipType]]

\* loadPingConfig, env being the environment: the text of each variable, ""
\* when it is not set
loadPingConfigAcceptsZero(env) ==
    [Targets |-> TargetsOf(env.PING_TARGETS, IPTypeIPv4)
                 \o TargetsOf(env.PING_TARGETS_V6, IPTypeIPv6),
     Count |-> IF env.PING_COUNT # "" /\ ~Atoi(env.PING_COUNT).err
                  /\ Atoi(env.PING_COUNT).v >= 0
               THEN Atoi(env.PING_COUNT).v ELSE DefaultCount,
     Interval |-> IF env.PING_INTERVAL # "" /\ ~ParseDuration(env.PING_INTERVAL).err
                     /\ ParseDuration(env.PING_INTERVAL).v > 0
                  THEN ParseDuration(env.PING_INTERVAL).v ELSE DefaultInterval,
     Timeout |-> IF env.PING_TIMEOUT # "" /\ ~ParseDuration(env.PING_TIMEOUT).err
                    /\ ParseDuration(env.PING_TIMEOUT).v > 0
                 THEN ParseDuration(env.PING_TIMEOUT).v ELSE DefaultTimeout,
     Concurrency |-> IF env.PING_CONCURRENCY # "" /\ ~Atoi(env.PING_CONCURRENCY).err
                        /\ Atoi(env.PING_CONCURRENCY).v > 0
                     THEN Atoi(env.PING_CONCURRENCY).v ELSE DefaultConcurrency]
loadPingConfig(env) ==
    [Targets |-> TargetsOf(env.PING_TARGETS, IPTypeIPv4)
                 \o TargetsOf(env.PING_TARGETS_V6, IPTypeIPv6),
     Count |-> IF env.PING_COUNT # "" /\ ~Atoi(env.PING_COUNT).err
                  /\ Atoi(env.PING_COUNT).v > 0
               THEN Atoi(env.PING_COUNT).v ELSE DefaultCount,
     Interval |-> IF env.PING_INTERVAL # "" /\ ~ParseDuration(env.PING_INTERVAL).err
                     /\ ParseDuration(env.PING_INTERVAL).v > 0
                  THEN ParseDuration(env.PING_INTERVAL).v ELSE DefaultInterval,
     Timeout |-> IF env.PING_TIMEOUT # "" /\ ~ParseDuration(env.PING_TIMEOUT).err
                    /\ ParseDuration(env.PING_TIMEOUT).v > 0
                 THEN ParseDuration(env.PING_TIMEOUT).v ELSE DefaultTimeout,
     Concurrency |-> IF env.PING_CONCURRENCY # "" /\ ~Atoi(env.PING_CONCURRENCY).err
                        /\ Atoi(env.PING_CONCURRENCY).v > 0
                     THEN Atoi(env.PING_CONCURRENCY).v ELSE DefaultConcurrency]

\* What a variable may hold, with what it means: a well-formed positive value
\* (wellFormed, value), or nothing, a malformed text, zero or a negative value.
Setting(text, wellFormed, value) == [text |-> text, wellFormed |-> wellFormed, value |-> value]
CountSettings ==
    {Setting("", FALSE, 0), Setting("5", TRUE, 5), Setting("+5", TRUE, 5),
     Setting("0", FALSE, 0), Setting("-3", FALSE, 0), Setting("abc", FALSE, 0)}
IntervalSettings ==
    {Setting("", FALSE, 0), Setting("5ms", TRUE, 5 * Millisecond),
     Setting("0s", FALSE, 0), Setting("-1s", FALSE, 0), Setting("3", FALSE, 0)}
TimeoutSettings ==
    {Setting("", FALSE, 0), Setting("2s", TRUE, 2 * Second),
     Setting("0", FALSE, 0), Setting("-2s", FALSE, 0), Setting("soon", FALSE, 0)}
ConcurrencySettings ==
    {Setting("", FALSE, 0), Setting("4", TRUE, 4),
     Setting("0", FALSE, 0), Setting("-1", FALSE, 0), Setting("x", FALSE, 0)}
TargetSettings == {<<"">>, <<"a.example">>, <<" a.example", "", "b.example ">>}

Environments ==
    {[targets |-> t, targetsV6 |-> t6, count |-> c, interval |-> i, timeout |-> o,
      concurrency |-> n] :
        t \in TargetSettings, t6 \in {<<"">>, <<"a.example">>},
        c \in CountSettings, i \in IntervalSettings, o \in TimeoutSettings,
        n \in ConcurrencySettings}

\* os.Getenv of each variable
Getenv(e) ==
    [PING_TARGETS |-> e.targets, PING_TARGETS_V6 |-> e.targetsV6,
     PING_COUNT |-> e.count.text, PING_INTERVAL |-> e.interval.text,
     PING_TIMEOUT |-> e.timeout.text, PING_CONCURRENCY |-> e.concurrency.text]

\* ------------------------------------------- the parsers on their own
\* what a call of one of these functions leaves alone
otherVars == <<pingVars, probe, network, device, upnp, exporterVars>>

ParseInit ==
    /\ config \in FnConfigs
    /\ PingInit
    /\ probe = NoProbe
    /\ called = NoCall
    /\ SourcesIdle
    /\ ExporterIdle

\* Lease lines and neighbour lines that share keys: two leases of one
\* (mac, ip), a neighbour with a lease, one mac at two addresses.
LeaseLines ==
    {<<"9", MacA, "10.0.0.2", "phone", "*">>,
     <<"3", MacA, "10.0.0.2", "*", "*">>,
     <<"9", MacB, "10.0.0.3", "tablet", "*">>}
NeighLines ==
    {<<"10.0.0.2", "dev", "br-lan", "lladdr", MacA, "REACHABLE">>,
     <<"10.0.0.3", "dev", "br-lan", "lladdr", MacA, "STALE">>,
     <<"10.0.0.4", "dev", "br-lan", "lladdr", MacC, "STALE">>}
MergeInputs ==
    {DeviceInput(<<File(ls, FALSE), NoFile, NoFile>>, CommandOutput(ns), NoFile) :
        ls \in SeqsUpTo(LeaseLines, MaxLines), ns \in SeqsUpTo(NeighLines, MaxLines)}
    \cup DeviceInputs

\* getConnectedDevices() is called and returns
CallGetConnectedDevices ==
    /\ called.fn = "none"
    /\ \E in \in MergeInputs :
          \E out \in getConnectedDevices(in) :
              called' = [fn |-> "getConnectedDevices", in |-> in, out |-> out]
    /\ UNCHANGED otherVars

\* One mapping written in both forms of a miniupnpd lease line, each line
\* kept as its pieces between colons; the description is a text without a
\* colon, an empty or blank one, one with blanks around it, or one with a
\* colon in it ("my:app").
Descriptions == {<<"web">>, <<"">>, <<" ">>, <<" web ">>, <<"my", "app">>}
OldFormLine(protocol, lease, description) ==
    <<protocol, "80", "10.0.0.2", "8080", lease>> \o description
NewFormLine(protocol, timestamp, lease, description) ==
    <<protocol, "80", "10.0.0.2", "8080", timestamp, lease>> \o description
BothFormsFiles ==
    {[file |-> File(<<OldFormLine(p, l, d), NewFormLine(p, "5", l, d)>>, FALSE),
      description |-> d, lease |-> l] :
        p \in {"tcp", "udp", "TCP"}, l \in {"0", "7"}, d \in Descriptions}

\* parseMiniUPnPDLeases(file) is called and returns
CallParseMiniUPnPDLeases ==
    /\ called.fn = "none"
    /\ \E in \in BothFormsFiles :
          called' = [fn |-> "parseMiniUPnPDLeases", in |-> in,
                     out |-> parseMiniUPnPDLeases(in.file)]
    /\ UNCHANGED otherVars

\* Lines of a file with what they are: well-formed, or malformed by having
\* too few fields or a field that is no number.
ParsedLine(fields, wellFormed) == [fields |-> fields, wellFormed |-> wellFormed]
FieldsOf(lines) == [i \in 1..Len(lines) |-> lines[i].fields]
NetDevLines ==
    {ParsedLine(NetLine("eth0", 9, 3, 8, 2), TRUE),
     ParsedLine(NetLine("lo", 1, 1, 1, 1), TRUE),
     ParsedLine(<<"eth1:", "4", "2">>, FALSE),
     ParsedLine([NetLine("eth1", 4, 2, 6, 1) EXCEPT ![2] = "x"], FALSE)}
\* a lease line, with the expiry time it states when it is well-formed
LeaseLine(fields, wellFormed, expiry) ==
    [fields |-> fields, wellFormed |-> wellFormed, expiry |-> expiry]
DHCPLines ==
    {LeaseLine(<<"9", MacA, "10.0.0.2", "phone", "*">>, TRUE, 9),
     LeaseLine(<<"5", MacB, "10.0.0.3", "*", "*">>, TRUE, 5),
     LeaseLine(<<"-3", MacC, "10.0.0.4", "tv">>, TRUE, -3),
     LeaseLine(<<"9", MacC>>, FALSE, 0),
     LeaseLine(<<"soon", MacB, "10.0.0.3", "tablet", "*">>, FALSE, 0)}

\* time.Now().Unix() when the leases are read
Nows == {3, 5, 9}

\* getNetworkInterfaces() is called and returns
CallGetNetworkInterfaces ==
    /\ called.fn = "none"
    /\ \E lines \in SeqsUpTo(NetDevLines, MaxLines) :
          called' = [fn |-> "getNetworkInterfaces", in |-> lines,
                     out |-> getNetworkInterfaces(File(NetHeader \o FieldsOf(lines), FALSE))]
    /\ UNCHANGED otherVars

\* parseDHCPLeases() is called and returns
CallParseDHCPLeases ==
    /\ called.fn = "none"
    /\ \E lines \in SeqsUpTo(DHCPLines, MaxLines), now \in Nows :
          called' = [fn |-> "parseDHCPLeases", in |-> [lines |-> lines, now |-> now],
                     out |-> parseDHCPLeases(<<NoFile, File(FieldsOf(lines), FALSE), NoFile>>,
                                             now)]
    /\ UNCHANGED otherVars

\* loadPingConfig() is called and returns
CallLoadPingConfig ==
    /\ called.fn = "none"
    /\ \E e \in Environments :
          called' = [fn |-> "loadPingConfig", in |-> e, out |-> loadPingConfig(Getenv(e))]
    /\ UNCHANGED otherVars

ParseNext ==
    \/ CallGetConnectedDevices
    \/ CallLoadPingConfig
    \/ CallGetNetworkInterfaces
    \/ CallParseDHCPLeases
    \/ CallParseMiniUPnPDLeases

ParseSpec == ParseInit /\ [][ParseNext]_vars

\* --------------------------------------------------------------- the process
\* main: the collectors it registers, in order, before it serves
Registrations == <<"network", "device">>

\* the snapshot sources of the package
AllSources == {"network", "device", "upnp", "ping"}

\* registry := prometheus.NewRegistry()
NewRegistry ==
    /\ serverPc = "start"
    /\ serverPc' = "registering"
    /\ registry' = {}
    /\ UNCHANGED <<pingVars, fnVars, network, device, upnp, scrape, scrapeNo>>

\* registry.MustRegister(...), one call after the other
MustRegister ==
    /\ serverPc = "registering"
    /\ Cardinality(registry) < Len(Registrations)
    /\ registry' = registry \cup {Registrations[Cardinality(registry) + 1]}
    /\ UNCHANGED <<pingVars, fnVars, network, device, upnp, serverPc, scrape, scrapeNo>>

\* http.Handle(promhttp.HandlerFor(registry)) and http.ListenAndServe
ListenAndServe ==
    /\ serverPc = "registering"
    /\ Cardinality(registry) = Len(Registrations)
    /\ serverPc' = "serving"
    /\ UNCHANGED <<pingVars, fnVars, network, device, upnp, registry, scrape, scrapeNo>>

\* Collect of the collector c has returned in this scrape
Collected(c) ==
    CASE c = "network" -> network.pc = "returned"
      [] c = "device" -> device.pc = "returned"
      [] c = "upnp" -> upnp.pc = "returned"
      [] c = "ping" -> mainPc = "returned" /\ closerPc \in {"none", "done"}

\* a request for the metrics path: Gather starts, with a channel of its own
\* and every collector's Collect yet to be called
ScrapeBegin ==
    /\ serverPc = "serving"
    /\ scrape = "none"
    /\ scrapeNo < MaxScrapes
    /\ scrape' = "gathering"
    /\ network' = [pc |-> "idle", in |-> NoNetworkInput]
    /\ device' = [pc |-> "idle", in |-> NoDeviceInput]
    /\ upnp' = [pc |-> "idle", in |-> NoUPnPInput]
    /\ ch' = <<>>
    /\ mainPc' = "start"
    /\ workerCount' = 0
    /\ spawned' = 0
    /\ nextTask' = 0
    /\ tasksCh' = MakeChan(0)
    /\ resultsCh' = MakeChan(0)
    /\ wg' = 0
    /\ wpc' = [w \in 1..config.Concurrency |-> "none"]
    /\ wtarget' = [w \in 1..config.Concurrency |-> NoTarget]
    /\ wips' = [w \in 1..config.Concurrency |-> NoLookup]
    /\ wip' = [w \in 1..config.Concurrency |-> NoIP]
    /\ closerPc' = "none"
    /\ UNCHANGED <<config, panicked, histVars, fnVars, serverPc, registry, scrapeNo>>

\* Gather calls Collect of a registered collector
GatherCollect(c) ==
    /\ scrape = "gathering"
    /\ CASE c = "network" -> NetworkCollect
         [] c = "device" -> DeviceCollect
         [] c = "upnp" -> UPnPCollect
         [] c = "ping" -> Next

\* every registered collector's Collect has returned: the response is written
ScrapeEnd ==
    /\ scrape = "gathering"
    /\ \A c \in registry : Collected(c)
    /\ scrape' = "none"
    /\ scrapeNo' = scrapeNo + 1
    /\ UNCHANGED <<pingVars, fnVars, network, device, upnp, serverPc, registry>>

ExporterNext ==
    \/ NewRegistry
    \/ MustRegister
    \/ ListenAndServe
    \/ ScrapeBegin
    \/ \E c \in registry : GatherCollect(c)
    \/ ScrapeEnd

ExporterSpec == ScrapeInit /\ [][ExporterNext]_vars

\* ================================================================ claims
Min2(a, b) == IF a < b THEN a ELSE b

\* the number of copies in the bag B of the elements in S
RECURSIVE CopiesOf(_, _)
CopiesOf(B, S) ==
    IF S = {} THEN 0
    ELSE LET e == CHOOSE x \in S : TRUE
         IN  B[e] + CopiesOf(B, S \ {e})
TargetBag == SeqToBag(config.Targets)
Tags(results) == [i \in 1..Len(results) |-> results[i].target]

\* every result sent on resultsCh so far, in the order it left or will leave it
Produced == received \o resultsCh.buf

NumTargets == Len(config.Targets)

\* C1: one run of Collect puts exactly T results on the results channel, one
\* per entry of the target list (as bags, the results' tags are the target
\* list), failed targets included; before the return there are never more
\* results than entries, and by the return the loop has received them all.
C1_ExactlyOneResultPerTarget ==
    /\ SeqToBag(Tags(Produced)) \sqsubseteq TargetBag
    /\ mainPc = "returned" =>
          /\ resultsCh.buf = <<>>
          /\ Len(received) = NumTargets
          /\ SeqToBag(Tags(received)) = TargetBag

\* C1 witness: Collect has returned with three results, of which some failed
\* and some did not, for a list with a repeated target
C1_Witness ==
    /\ mainPc = "returned"
    /\ config = ScenarioConfig
    /\ Len(received) = 3
    /\ \E i, j \in 1..3 : received[i].err # NoErr /\ received[j].err = NoErr

\* the pingTarget calls that have not returned yet
InFlight == BagCardinality(calls) - BagCardinality(returns)

\* C2: Collect starts exactly W = min(Concurrency, T) workers (never more
\* while it starts them, exactly W once the start loop is over), a worker is
\* inside at most one pingTarget call, and the calls in flight never exceed W.
C2_WorkerPoolBound ==
    LET W == Min2(config.Concurrency, NumTargets) IN
    /\ Cardinality(Started) <= W
    /\ mainPc \in {"produce", "goCloser", "consume", "returned"} /\ NumTargets > 0
          => Cardinality(Started) = W
    /\ InFlight = Cardinality({w \in Workers : wpc[w] \in {"lookup", "ping"}})
    /\ InFlight <= W

\* C2 witness: three targets, two workers, both inside pingTarget while a
\* target still waits in the queue
C2_Witness ==
    /\ config = ScenarioConfig
    /\ InFlight = 2
    /\ Len(tasksCh.buf) = 1

\* C3: resultsCh is closed only after every worker has left its loop and every
\* result has been sent; no goroutine panics on a send to the closed channel;
\* and the consuming loop ends only after it has received every result.
C3_CloseAfterAllResults ==
    /\ ~panicked
    /\ resultsCh.closed =>
          /\ \A w \in Workers : wpc[w] \in {"none", "done"}
          /\ Cardinality(Started) = workerCount
          /\ Len(Produced) = NumTargets
    /\ mainPc = "returned" /\ NumTargets > 0 =>
          /\ resultsCh.closed
          /\ Len(received) = NumTargets

\* C3 witness: the channel is closed while results are still buffered in it
C3_Witness ==
    /\ resultsCh.closed
    /\ Len(resultsCh.buf) >= 2
    /\ mainPc = "consume"

AllGoroutinesDone ==
    /\ mainPc = "returned"
    /\ \A w \in Workers : wpc[w] \in {"none", "done"}
    /\ closerPc \in {"none", "done"}

\* C4: under fair scheduling, with every pingTarget call returning, Collect
\* returns and every worker and the closer goroutine end, whatever fails.
C4_CollectTerminates == <>AllGoroutinesDone

\* C4 witness: Collect has returned for three targets that all failed
C4_Witness ==
    /\ AllGoroutinesDone
    /\ config = ScenarioConfig
    /\ Len(received) = 3
    /\ \A i \in 1..3 : received[i].err # NoErr

\* C5: every entry of the target list is taken from the queue once and
\* pingTarget is called once for it: the calls made, with the targets still
\* queued or still to be queued, are the target list (as bags), so no entry is
\* probed twice or retried, and by the return none is left out.
C5_EachTargetProbedOnce ==
    /\ mainPc # "start" =>
          calls (+) SeqToBag(tasksCh.buf)
                (+) SeqToBag(SubSeq(config.Targets, nextTask + 1, NumTargets)) = TargetBag
    /\ BagCardinality(returns) <= BagCardinality(calls)
    /\ mainPc = "returned" => calls = TargetBag /\ BagCardinality(returns) = NumTargets

\* C5 witness: Collect has returned after a failed first target, with as many
\* pingTarget calls as targets
C5_Witness ==
    /\ mainPc = "returned"
    /\ config = ScenarioConfig
    /\ BagCardinality(calls) = 3
    /\ received[1].err # NoErr

\* an address of the family a target asks for, said without pingTarget's words
OfFamily(ip, ipType) ==
    \/ ipType = IPTypeIPv4 /\ ip.v4
    \/ ipType = IPTypeIPv6 /\ ~ip.v4 /\ ip.len = 16
ResolutionErrors == {ErrLookup, ErrNoAddress, ErrUnknownIPType}

\* C6 as claimed: a target is resolved before a worker takes it, so no worker
\* is ever occupied by a target whose lookup is still to be made.
C6_ResolvedBeforeScheduling == \A w \in Workers : wpc[w] # "lookup"

\* C6 as amended: resolution happens inside pingTarget, on the worker that
\* took the target, which stays occupied meanwhile; a pinger is created only
\* for an address of the requested family that the lookup answered, so a
\* target whose resolution fails returns its error with no pinger created.
C6_ResolvedInsideWorker ==
    /\ \A w \in Workers : wpc[w] = "lookup" => BagIn(wtarget[w], calls) /\ wip[w] = NoIP
    /\ \A w \in Workers : wpc[w] = "ping" =>
          /\ wip[w] \in Range(wips[w].ips)
          /\ OfFamily(wip[w], wtarget[w].IPType)
    /\ pingers = CopiesOf(returns, {e \in DOMAIN returns : e.err \notin ResolutionErrors})
    /\ \A e \in BagToSet(returns) :
          e.err \in ResolutionErrors <=>
             (e.lookup.err \/ ~\E i \in 1..Len(e.lookup.ips) : OfFamily(e.lookup.ips[i], e.target.IPType))

\* C6 witness: a target without an address of its family has had its error
\* result received, and no pinger was ever created
C6_Witness ==
    /\ \E i \in 1..Len(received) : received[i].err = ErrNoAddress
    /\ pingers = 0
    /\ mainPc = "returned"

\* the four samples of a successful return e are in ch, in Collect's order
HasSamples(e) ==
    LET labels == <<e.target.Host, e.result.IP, e.target.IPType>> IN
    \E k \in 1..(Len(ch) - 3) :
        /\ ch[k] = Metric(avgLatencyMs, e.result.AvgLatencyMs, labels)
        /\ ch[k + 1] = Metric(minLatencyMs, e.result.MinLatencyMs, labels)
        /\ ch[k + 2] = Metric(maxLatencyMs, e.result.MaxLatencyMs, labels)
        /\ ch[k + 3] = Metric(packetLoss, e.result.PacketLoss, labels)

\* C7: a result that carries an error adds no sample of any kind, and every
\* successful result adds its four samples, in whatever order results arrive:
\* ch holds four samples per successful result received, every sample in it
\* stems from a pingTarget call that succeeded, and by the return the samples
\* of every successful call are in it.
C7_SamplesOnlyForSuccesses ==
    /\ Len(ch) = 4 * Cardinality({i \in 1..Len(received) : received[i].err = NoErr})
    /\ \A k \in 1..Len(ch) :
          \E e \in BagToSet(returns) :
              /\ e.err = NoErr
              /\ ch[k].labelValues = <<e.target.Host, e.result.IP, e.target.IPType>>
    /\ mainPc = "returned" =>
          /\ Len(ch) = 4 * CopiesOf(returns, {e \in DOMAIN returns : e.err = NoErr})
          /\ \A e \in BagToSet(returns) : e.err = NoErr => HasSamples(e)

\* C7 witness: Collect has returned after receiving a failed result before a
\* successful one, and the successful one's samples are there
C7_Witness ==
    /\ mainPc = "returned"
    /\ Len(received) >= 2
    /\ received[1].err # NoErr
    /\ received[2].err = NoErr
    /\ Len(ch) = 4

\* C8: pingTarget returns an error exactly when the lookup fails, no address
\* of the requested family is answered, or NewPinger or Run fails; a probe
\* that ran and got no reply is no error, and by the return Collect has sent
\* the four samples of every call that returned no error.
C8_LossIsNotAnError ==
    /\ \A e \in BagToSet(returns) :
          e.err # NoErr <=>
             \/ e.lookup.err
             \/ ~\E i \in 1..Len(e.lookup.ips) : OfFamily(e.lookup.ips[i], e.target.IPType)
             \/ e.pinger.newPingerErr
             \/ e.pinger.runErr
    /\ mainPc = "returned" =>
          \A e \in BagToSet(returns) :
             (e.err = NoErr /\ e.pinger.rtts = <<>>) => HasSamples(e)

\* C8 witness: Collect has returned, a probe sent its packets and got no
\* reply, and its four samples are in ch
C8_Witness ==
    /\ mainPc = "returned"
    /\ \E e \in BagToSet(returns) :
          /\ e.pinger.sent > 0 /\ e.pinger.rtts = <<>>
          /\ e.err = NoErr
          /\ HasSamples(e)

\* C9: the packet loss of a successful result is within [0, 100], and when it
\* is 100 (no reply) the min, avg and max latencies are 0.
C9_LossRangeAndZeroLatency ==
    probe.done /\ probe.err = NoErr =>
        LET r == probe.result IN
        /\ r.PacketLoss.den > 0
        /\ 0 <= r.PacketLoss.num
        /\ r.PacketLoss.num <= 100 * r.PacketLoss.den
        /\ r.PacketLoss.num = 100 * r.PacketLoss.den =>
              /\ r.MinLatencyMs.num = 0
              /\ r.AvgLatencyMs.num = 0
              /\ r.MaxLatencyMs.num = 0

\* C9 witness: a probe that sent two packets and got no reply has returned a
\* result of 100 % loss
C9_Witness ==
    /\ probe.done /\ probe.err = NoErr
    /\ probe.pinger.sent = 2 /\ probe.pinger.rtts = <<>>
    /\ probe.result.PacketLoss.num = 100 * probe.result.PacketLoss.den

\* the samples on ch of the descriptors named
SamplesFrom(names) == SelectSeq(ch, LAMBDA m : m.desc.name \in names)
NetworkNames == {rxBytes.name, txBytes.name, rxPackets.name, txPackets.name, uptime.name}
DeviceNames == {deviceInfo.name, deviceOnlineTime.name, deviceLeaseRemain.name}
UPnPNames == {upnpInfo.name, upnpLeaseSeconds.name, upnpMappingCount.name}
PingNames == {avgLatencyMs.name, minLatencyMs.name, maxLatencyMs.name, packetLoss.name}

\* the input of a source is entirely unavailable
NetworkUnavailable == ~network.in.procNetDev.open
DeviceUnavailable ==
    /\ \A i \in 1..Len(device.in.leasePaths) : ~device.in.leasePaths[i].open
    /\ ~device.in.ipNeigh.ok
    /\ ~device.in.procNetArp.open
UPnPUnavailable == \A i \in 1..Len(upnp.in.leasePaths) : ~upnp.in.leasePaths[i].open
EveryTargetFailed ==
    /\ NumTargets >= 1
    /\ \A e \in DOMAIN returns : e.err # NoErr

\* C10: a source whose Collect has returned on an entirely unavailable input
\* (no candidate file opens, no command succeeds, every target fails) has
\* returned normally with no sample of its own on ch; and whatever the other
\* sources found, the samples of each source on ch are the ones of its own
\* input alone: none before its Collect ran, and after it exactly what that
\* Collect sends for its input, in the order it sends them.
C10_UnavailableSourceEmitsNothing ==
    /\ ~panicked
    /\ network.pc = "returned" /\ NetworkUnavailable => SamplesFrom(NetworkNames) = <<>>
    /\ device.pc = "returned" /\ DeviceUnavailable => SamplesFrom(DeviceNames) = <<>>
    /\ upnp.pc = "returned" /\ UPnPUnavailable => SamplesFrom(UPnPNames) = <<>>
    /\ mainPc = "returned" /\ EveryTargetFailed => SamplesFrom(PingNames) = <<>>
    /\ SamplesFrom(NetworkNames) =
           IF network.pc = "returned" THEN NetworkSamples(network.in) ELSE <<>>
    /\ SamplesFrom(DeviceNames) \in
           IF device.pc = "returned"
           THEN {DeviceSamples(devices) : devices \in getConnectedDevices(device.in)}
           ELSE {<<>>}
    /\ SamplesFrom(UPnPNames) =
           IF upnp.pc = "returned" THEN UPnPSamples(upnp.in) ELSE <<>>
    /\ SamplesFrom(PingNames) =
           Flatten([i \in 1..Len(received) |-> SamplesOf(received[i])])
    /\ Len(ch) = Len(SamplesFrom(NetworkNames)) + Len(SamplesFrom(DeviceNames))
                 + Len(SamplesFrom(UPnPNames)) + Len(SamplesFrom(PingNames))

\* the scrape is over; the lease files of miniupnpd and /proc/net/dev were
\* missing and the target failed, while the device source found devices
C10_Witness ==
    /\ network.pc = "returned" /\ device.pc = "returned" /\ upnp.pc = "returned"
    /\ mainPc = "returned"
    /\ NetworkUnavailable /\ UPnPUnavailable /\ EveryTargetFailed
    /\ ~DeviceUnavailable
    /\ ch # <<>>

\* C11: once main serves, the registry holds the four snapshot sources (the
\* interface, device, UPnP and latency collectors) and keeps holding them, and
\* a scrape that has ended has called Collect of each of the four.
C11_RegistryHoldsAllFourSources ==
    /\ serverPc = "serving" => registry = AllSources
    /\ scrapeNo > 0 /\ scrape = "none" => \A c \in AllSources : Collected(c)

\* the records the two sources of getConnectedDevices gave it: a source that
\* failed gives none
DHCPSet(in) ==
    LET dhcp == parseDHCPLeases(in.leasePaths, in.now)
    IN  IF dhcp.err THEN <<>> ELSE dhcp.devices
ARPSet(in) ==
    LET arp == parseARPTable(in.ipNeigh, in.procNetArp)
    IN  IF arp.err THEN <<>> ELSE arp.devices
PairsOf(ds) == {<<ds[i].MAC, ds[i].IP>> : i \in 1..Len(ds)}
WithPair(ds, pair) == {i \in 1..Len(ds) : <<ds[i].MAC, ds[i].IP>> = pair}

\* C12: getConnectedDevices returns exactly one record for each (mac, ip) of
\* the DHCP records and the ARP/neighbour records and no other record; for a
\* (mac, ip) with a DHCP record the returned record is the DHCP one (the last
\* lease line of that pair), with its hostname and remaining lease; for a
\* (mac, ip) of the ARP/neighbour records alone it has an empty hostname and
\* no remaining lease.
C12_OneRecordPerKeyDHCPWins ==
    called.fn = "getConnectedDevices" =>
        LET out == called.out
            dhcp == DHCPSet(called.in)
            arp == ARPSet(called.in)
        IN  /\ PairsOf(out) = PairsOf(dhcp) \cup PairsOf(arp)
            /\ \A pair \in PairsOf(out) : Cardinality(WithPair(out, pair)) = 1
            /\ \A i \in 1..Len(out) :
                  LET pair == <<out[i].MAC, out[i].IP>> IN
                  IF pair \in PairsOf(dhcp)
                  THEN out[i] = dhcp[MaxOf(WithPair(dhcp, pair))]
                  ELSE out[i].Hostname = "" /\ out[i].LeaseRemain = 0

\* a lease and a neighbour entry of one (mac, ip), and a neighbour alone
C12_Witness ==
    /\ called.fn = "getConnectedDevices"
    /\ PairsOf(DHCPSet(called.in)) \cap PairsOf(ARPSet(called.in)) # {}
    /\ PairsOf(ARPSet(called.in)) \ PairsOf(DHCPSet(called.in)) # {}
    /\ \E i \in 1..Len(called.out) : called.out[i].Hostname = "phone"
    /\ Len(called.out) = 2

\* C13: a mapping written as a 6-field line and as a 7-field line (with a
\* timestamp before the lease) gives two identical records, whatever the
\* description text; the record carries the line's lease and its description
\* without surrounding blanks, "unknown" standing for an empty one.
C13_BothFormsSameRecord ==
    called.fn = "parseMiniUPnPDLeases" =>
        LET mappings == called.out.mappings
            text == TrimSpace(Join(called.in.description, ":"))
        IN  /\ ~called.out.err
            /\ Len(mappings) = 2
            /\ mappings[1] = mappings[2]
            /\ mappings[2].LeaseSeconds = ParseFloat(called.in.lease).v
            /\ mappings[2].Description = IF text = "" THEN "unknown" ELSE text

\* the value the claim gives a field: the setting's when it is a well-formed
\* positive value, else the default
Loaded(setting, default) == IF setting.wellFormed THEN setting.value ELSE default

WellFormed(lines) ==
    SelectSeq(lines, LAMBDA l : l.wellFormed /\ l.fields[1] # "lo:")

\* C15: of the lines of an available file, the malformed ones (too few fields,
\* or a field that is no number) give no record and every well-formed one
\* gives its record: the interfaces returned are those of the well-formed
\* lines of /proc/net/dev, and the devices returned those of the well-formed
\* lease lines, in the order of the lines.
C15_MalformedLinesSkipped ==
    /\ called.fn = "getNetworkInterfaces" =>
          /\ ~called.out.err
          /\ [i \in 1..Len(called.out.interfaces) |-> called.out.interfaces[i].Name \o ":"]
                = [i \in 1..Len(WellFormed(called.in)) |-> WellFormed(called.in)[i].fields[1]]
    /\ called.fn = "parseDHCPLeases" =>
          /\ ~called.out.err
          /\ [i \in 1..Len(called.out.devices) |-> called.out.devices[i].MAC]
                = [i \in 1..Len(WellFormed(called.in.lines)) |->
                      WellFormed(called.in.lines)[i].fields[2]]

\* the lease lines that give a record: those of at least four fields
WithRecord(lines) == SelectSeq(lines, LAMBDA l : Len(l.fields) >= 4)

\* C16: the device record of a lease line with expiry time E, read at time N,
\* has E - N seconds of lease remaining when E > N and 0 otherwise, never a
\* negative number, and the hostname of the line, empty when the line has "*".
C16_LeaseRemainingAndHostname ==
    called.fn = "parseDHCPLeases" =>
        LET lines == WithRecord(called.in.lines)
            N == called.in.now
        IN  /\ Len(called.out.devices) = Len(lines)
            /\ \A i \in 1..Len(lines) :
                  LET E == lines[i].expiry
                      d == called.out.devices[i]
                  IN  lines[i].wellFormed =>
                        /\ d.LeaseRemain = IF E > N THEN E - N ELSE 0
                        /\ d.LeaseRemain >= 0
                        /\ d.Hostname = IF lines[i].fields[4] = "*" THEN ""
                                         ELSE lines[i].fields[4]

\* a lease that runs for 4 more seconds and one that has just run out, the
\* second without a hostname
C16_Witness ==
    /\ called.fn = "parseDHCPLeases"
    /\ called.in.now = 5
    /\ Len(called.out.devices) = 2
    /\ called.out.devices[1].LeaseRemain = 4 /\ called.out.devices[1].Hostname = "phone"
    /\ called.out.devices[2].LeaseRemain = 0 /\ called.out.devices[2].Hostname = ""
    /\ called.in.lines[2].expiry = 5

\* C17: every sample on ch has as many label values as its descriptor has
\* label names: 3 for a ping or a device sample, 1 for an interface sample,
\* 5 for a UPnP mapping sample and none for the UPnP mapping count.
C17_LabelValuesMatchLabelNames ==
    \A i \in 1..Len(ch) :
        LET m == ch[i]
            n == Len(m.labelValues)
        IN  /\ n = Len(m.desc.labels)
            /\ m.desc.name \in PingNames \cup DeviceNames => n = 3
            /\ m.desc.name \in NetworkNames => n = 1
            /\ m.desc.name \in {upnpInfo.name, upnpLeaseSeconds.name} => n = 5
            /\ m.desc.name = upnpMappingCount.name => n = 0

\* a scrape that is over with samples of the four sources on ch, a lease
\* sample and the mapping count among them
C17_Witness ==
    /\ network.pc = "returned" /\ device.pc = "returned" /\ upnp.pc = "returned"
    /\ mainPc = "returned"
    /\ SamplesFrom(PingNames) # <<>>
    /\ SamplesFrom(NetworkNames) # <<>>
    /\ SamplesFrom({deviceLeaseRemain.name}) # <<>>
    /\ SamplesFrom({upnpInfo.name}) # <<>>
    /\ SamplesFrom({upnpMappingCount.name}) # <<>>

\* C18: a pingTarget call that returns a result resolved the target to an
\* address the lookup answered and of the requested family (an IPv4 address
\* for an IPv4 target, a 16-byte address that is no IPv4 address for an IPv6
\* target), the samples of the result carry that address and the requested
\* family as their ip and ip_type labels, and a lookup that answers addresses
\* of the other family only makes the call return an error.
C18_ResolvedAddressOfRequestedFamily ==
    probe.done =>
        LET wanted == {ip \in Range(probe.lookup.ips) : OfFamily(ip, probe.target.IPType)}
            samples == SamplesOf([target |-> probe.target, result |-> probe.result,
                                  err |-> probe.err])
        IN  /\ probe.err = NoErr =>
                  /\ \E ip \in wanted : probe.result.IP = ip.str
                  /\ probe.result.IPType = probe.target.IPType
                  /\ Len(samples) = 4
                  /\ \A i \in 1..Len(samples) :
                        /\ samples[i].labelValues[2] = probe.result.IP
                        /\ samples[i].labelValues[3] = probe.target.IPType
            /\ ~probe.lookup.err /\ wanted = {} => probe.err = ErrNoAddress

\* an IPv6 target whose lookup answers an IPv4 address before the IPv6 one
C18_Witness ==
    /\ probe.done /\ probe.err = NoErr
    /\ probe.target.IPType = IPTypeIPv6
    /\ probe.lookup.ips = <<IPv4Addr, IPv6Addr>>
    /\ probe.result.IP = IPv6Addr.str

\* pingTarget was deterministic in this run: the calls for one target all got
\* the same answers of the network
Deterministic ==
    \A e1, e2 \in DOMAIN returns :
        e1.target = e2.target => e1.lookup = e2.lookup /\ e1.pinger = e2.pinger
\* what the network answered for a target in this run
AnswersIn ==
    [target \in Range(config.Targets) |->
        LET e == CHOOSE e \in DOMAIN returns : e.target = target
        IN  [lookup |-> e.lookup, pinger |-> e.pinger]]

\* C19: when pingTarget is deterministic, the (target, result or error) pairs
\* the worker-pool Collect has received by its return are, as a multiset,
\* those of one pingTarget call for each target in list order, as the
\* sequential Collect makes them, whatever the interleaving and the
\* concurrency.
C19_SameResultsAsSequential ==
    mainPc = "returned" /\ Deterministic =>
        SeqToBag(received) = SeqToBag(SequentialCollect(config, AnswersIn))

\* three targets on two workers, one target twice, with a failure and a
\* success, received in another order than the list's
C19_Witness ==
    /\ mainPc = "returned" /\ Deterministic
    /\ config = ScenarioConfig
    /\ Tags(received) # config.Targets
    /\ \E i, j \in 1..Len(received) : received[i].err = NoErr /\ received[j].err # NoErr

\* the channels of this Collect have been made
ChannelsMade == mainPc \notin {"start", "returned"} \/ (mainPc = "returned" /\ NumTargets >= 1)
\* a worker holds a task whose result it has still to send
HoldsTask(w) == wpc[w] \in {"lookup", "ping"}

\* C20: the task channel and the results channel each have the number of
\* targets as capacity and never hold more items than that; the producer,
\* while it has a target left to enqueue, finds room in the task channel, and
\* a worker that has a result to send finds room in the results channel.
C20_ChannelsNeverFull ==
    ChannelsMade =>
        /\ tasksCh.cap = NumTargets /\ resultsCh.cap = NumTargets
        /\ Len(tasksCh.buf) <= NumTargets /\ Len(resultsCh.buf) <= NumTargets
        /\ mainPc = "produce" /\ nextTask < NumTargets =>
              ~tasksCh.closed /\ Len(tasksCh.buf) < tasksCh.cap
        /\ \A w \in Workers : HoldsTask(w) =>
              ~resultsCh.closed /\ Len(resultsCh.buf) < resultsCh.cap

\* three targets: the producer has closed the task channel, the consumer has
\* taken nothing, two results wait in the results channel and a worker still
\* holds the task whose result will fill it
C20_Witness ==
    /\ config = ScenarioConfig
    /\ received = <<>>
    /\ Len(resultsCh.buf) = 2
    /\ \E w \in Workers : HoldsTask(w)
    /\ tasksCh.closed

\* the samples of each UPnP metric family on ch
CountSamples == SamplesFrom({upnpMappingCount.name})
InfoSamples == SamplesFrom({upnpInfo.name})
LeaseSamples == SamplesFrom({upnpLeaseSeconds.name})
\* one count sample, whose value is the number of the info samples and of the
\* lease-seconds samples
OneCountOfTheMappings ==
    /\ Len(CountSamples) = 1
    /\ CountSamples[1].value = Len(InfoSamples)
    /\ CountSamples[1].value = Len(LeaseSamples)
\* the lease file that was opened was read to its end without a read error
UPnPReadToEnd == ~OpenFirst(upnp.in.leasePaths).scanErr

\* C21 as stated: whenever a candidate lease file opens, the UPnP Collect
\* emits exactly one mapping-count sample whose value is the number of
\* mapping-info samples and of lease-seconds samples of the scrape (0 for an
\* empty file); when no candidate opens it emits no sample at all.
C21_CountWheneverFileOpens ==
    upnp.pc = "returned" =>
        IF UPnPUnavailable THEN SamplesFrom(UPnPNames) = <<>>
        ELSE OneCountOfTheMappings

\* C21, amended: the count sample is emitted when the opened lease file was
\* also read to its end without error, and then counts the mapping-info
\* samples and the lease-seconds samples (0 for an empty file); when no
\* candidate opens, or the opened file fails while it is read, the UPnP
\* Collect emits no sample at all.
C21_CountWhenFileIsRead ==
    upnp.pc = "returned" =>
        IF UPnPUnavailable \/ ~UPnPReadToEnd THEN SamplesFrom(UPnPNames) = <<>>
        ELSE OneCountOfTheMappings

\* a scrape that found the lease file with two mappings at the second path:
\* the count sample says 2 and two info samples are on ch
C21_Witness ==
    /\ upnp.pc = "returned"
    /\ ~UPnPUnavailable /\ UPnPReadToEnd
    /\ Len(CountSamples) = 1 /\ CountSamples[1].value = 2
    /\ Len(InfoSamples) = 2 /\ Len(LeaseSamples) = 2
====
